---- MODULE Spec2Model ----
(***************************************************************************)
(* State-machine model of the two programs of opengl-beginner-renderer:    *)
(*   opengl_triangle/src/main.cpp                  (variant "triangle")    *)
(*   opengl_rectangle_using_indexing/src/main.cpp  (variant "rectangle")   *)
(* The two files are the same main() except for the vertex data, the index *)
(* buffer (EBO) and the draw call; `variant` selects the program.          *)
(*                                                                         *)
(* The GL context is the record `gl`; every gl* / glfw* call the programs  *)
(* make is an operator on it.  Floats are stored as integers in units of   *)
(* 0.5 (all vertex coordinates are 0.0 or +-0.5, exactly representable).   *)
(***************************************************************************)
EXTENDS Integers, Sequences, FiniteSets, TLC

VARIABLES
    variant,     \* which of the two programs runs
    pc,          \* position of main()
    glfw,        \* windowing library: window, close flag, key state, callback
    gl,          \* GL context state and objects
    loc,         \* main()'s local variables (handles, success)
    stdout,      \* lines printed to std::cout
    retval,      \* <<v>> once main has returned v, <<>> while it runs
    frame,       \* calls made so far by the current loop iteration
    events,      \* events dispatched so far by the current glfwPollEvents call
    lastResize,  \* arguments of the latest framebuffer_size_callback call
    escObserved  \* processInput has seen GLFW_KEY_ESCAPE pressed

vars == <<variant, pc, glfw, gl, loc, stdout, retval, frame, events,
          lastResize, escObserved>>

-----------------------------------------------------------------------------
(* Bounds and program constants *)

MaxEvents == 2

SCR_WIDTH == 800

SCR_HEIGHT == 600

Variants == {"triangle", "rectangle"}

Widths == {0, 800, 1024}

Heights == {0, 600}

NoResize == <<>>

-----------------------------------------------------------------------------
(* Program data *)

TriangleVertices == << -1, -1, 0,    1, -1, 0,    0, 1, 0 >>

RectangleVertices == << 1, 1, 0,    1, -1, 0,    -1, -1, 0,    -1, 1, 0 >>

indices_swapped == << 0, 1, 2,   1, 2, 3 >>

indices == << 0, 1, 3,   1, 2, 3 >>

vertices(v) == IF v = "triangle" THEN TriangleVertices ELSE RectangleVertices

ClearColor == << 10, 10, 15, 100 >>   \* (0.1, 0.1, 0.15, 1.0) in hundredths

MsgWindow == "Failed to create GLFW window\n"

MsgGlad == "Failed to initialize GLAD\n"

MsgVertex == "Vertex Shader Error:\n"

MsgFragment == "Fragment Shader Error:\n"

MsgLink == "Shader Link Error:\n"

-----------------------------------------------------------------------------
(* The GL context: objects and bindings *)

NewName(used) == CHOOSE n \in 1..(Cardinality(used) + 1) :
                     n \notin used /\ \A m \in 1..(n - 1) : m \in used

Without(f, k) == [i \in DOMAIN f \ {k} |-> f[i]]

Bump(f, k) == IF k \in DOMAIN f THEN [f EXCEPT ![k] = @ + 1] ELSE (k :> 1) @@ f

Calls(f, k) == IF k \in DOMAIN f THEN f[k] ELSE 0

NoAttrib == [enabled |-> FALSE, size |-> 4, stride |-> 0, offset |-> 0, buffer |-> 0]

NoContext ==
    [ current     |-> FALSE,
      loaded      |-> FALSE,
      viewport    |-> <<0, 0, 0, 0>>,
      clearColor  |-> <<0, 0, 0, 0>>,
      program     |-> 0,
      vao         |-> 0,
      arrayBuffer |-> 0,
      shaders     |-> <<>>,
      programs    |-> <<>>,
      buffers     |-> <<>>,
      vaos        |-> <<>>,
      back        |-> [color |-> <<0, 0, 0, 0>>, prims |-> <<>>],
      front       |-> [color |-> <<0, 0, 0, 0>>, prims |-> <<>>],
      lastDraw    |-> [fn |-> "", count |-> 0],
      genCalls    |-> <<>>,
      delCalls    |-> <<>>,
      uploads     |-> <<>> ]

glViewport(g, x, y, w, h) == [g EXCEPT !.viewport = <<x, y, w, h>>]

glClearColor(g, c) == [g EXCEPT !.clearColor = c]

glClear(g) == [g EXCEPT !.back = [color |-> g.clearColor, prims |-> <<>>]]

ProgramNames(g) == DOMAIN g.shaders \cup DOMAIN g.programs

glCreateShader(g, id, type) ==
    [g EXCEPT !.shaders = (id :> [type |-> type, source |-> FALSE,
                                  compiled |-> FALSE, flagged |-> FALSE]) @@ @,
              !.genCalls = Bump(@, <<"shader", id>>)]

glShaderSource(g, id) == [g EXCEPT !.shaders[id].source = TRUE]

glCompileShader(g, id, ok) ==
    [g EXCEPT !.shaders[id].compiled = ok /\ g.shaders[id].source]

glGetShaderiv(g, id) == IF g.shaders[id].compiled THEN 1 ELSE 0

glCreateProgram(g, id) ==
    [g EXCEPT !.programs = (id :> [attached |-> {}, linked |-> FALSE,
                                   flagged |-> FALSE]) @@ @,
              !.genCalls = Bump(@, <<"program", id>>)]

glAttachShader(g, p, s) == [g EXCEPT !.programs[p].attached = @ \cup {s}]

glLinkProgram(g, p, ok) ==
    [g EXCEPT !.programs[p].linked =
        /\ ok
        /\ \A s \in g.programs[p].attached : g.shaders[s].compiled
        /\ \E s \in g.programs[p].attached : g.shaders[s].type = "vertex"
        /\ \E s \in g.programs[p].attached : g.shaders[s].type = "fragment"]

glGetProgramiv(g, p) == IF g.programs[p].linked THEN 1 ELSE 0

glDeleteShader(g, s) ==
    LET counted == [g EXCEPT !.delCalls = Bump(@, <<"shader", s>>)] IN
    IF s \notin DOMAIN g.shaders THEN counted
    ELSE IF \E p \in DOMAIN g.programs : s \in g.programs[p].attached
         THEN [counted EXCEPT !.shaders[s].flagged = TRUE]
         ELSE [counted EXCEPT !.shaders = Without(@, s)]

glUseProgram(g, p) ==
    IF p = 0 \/ (p \in DOMAIN g.programs /\ g.programs[p].linked)
    THEN [g EXCEPT !.program = p]
    ELSE g      \* GL_INVALID_OPERATION / GL_INVALID_VALUE: state unchanged

glDeleteProgram(g, p) ==
    LET counted == [g EXCEPT !.delCalls = Bump(@, <<"program", p>>)] IN
    IF p \notin DOMAIN g.programs THEN counted
    ELSE IF g.program = p
         THEN [counted EXCEPT !.programs[p].flagged = TRUE]
         ELSE [counted EXCEPT
                 !.programs = Without(@, p),
                 !.shaders = [s \in { t \in DOMAIN g.shaders :
                                        ~(g.shaders[t].flagged
                                          /\ t \in g.programs[p].attached) }
                                |-> g.shaders[s]]]

glGenVertexArrays(g, id) ==
    [g EXCEPT !.vaos = (id :> [attrib0 |-> NoAttrib, ebo |-> 0]) @@ @,
              !.genCalls = Bump(@, <<"vao", id>>)]

glGenBuffers(g, id) ==
    [g EXCEPT !.buffers = (id :> <<>>) @@ @,
              !.genCalls = Bump(@, <<"buffer", id>>)]

glBindVertexArray(g, a) ==
    IF a = 0 \/ a \in DOMAIN g.vaos THEN [g EXCEPT !.vao = a] ELSE g

\* GL_ARRAY_BUFFER is context state; GL_ELEMENT_ARRAY_BUFFER is state of the
\* vertex array object that is bound when the call is made.
glBindBuffer(g, target, b) ==
    IF ~(b = 0 \/ b \in DOMAIN g.buffers) THEN g
    ELSE IF target = "GL_ARRAY_BUFFER" THEN [g EXCEPT !.arrayBuffer = b]
    ELSE IF g.vao = 0 THEN g
    ELSE [g EXCEPT !.vaos[g.vao].ebo = b]

BoundBuffer(g, target) ==
    IF target = "GL_ARRAY_BUFFER" THEN g.arrayBuffer
    ELSE IF g.vao = 0 THEN 0 ELSE g.vaos[g.vao].ebo

glBufferData(g, target, data) ==
    LET b == BoundBuffer(g, target) IN
    IF b = 0 THEN g
    ELSE [g EXCEPT !.buffers[b] = data, !.uploads = Bump(@, b)]

\* Records the buffer bound to GL_ARRAY_BUFFER at the time of the call.
glVertexAttribPointer(g, size, stride, offset) ==
    IF g.vao = 0 THEN g
    ELSE [g EXCEPT !.vaos[g.vao].attrib0 =
             [enabled |-> @.enabled, size |-> size, stride |-> stride,
              offset |-> offset, buffer |-> g.arrayBuffer]]

glEnableVertexAttribArray(g) ==
    IF g.vao = 0 THEN g ELSE [g EXCEPT !.vaos[g.vao].attrib0.enabled = TRUE]

glDeleteVertexArrays(g, a) ==
    LET counted == [g EXCEPT !.delCalls = Bump(@, <<"vao", a>>)] IN
    IF a \notin DOMAIN g.vaos THEN counted
    ELSE [counted EXCEPT !.vaos = Without(@, a),
                         !.vao = IF @ = a THEN 0 ELSE @]

glDeleteBuffers(g, b) ==
    LET counted == [g EXCEPT !.delCalls = Bump(@, <<"buffer", b>>)] IN
    IF b \notin DOMAIN g.buffers THEN counted
    ELSE [counted EXCEPT
            !.buffers = Without(@, b),
            !.arrayBuffer = IF @ = b THEN 0 ELSE @,
            !.vaos = [a \in DOMAIN counted.vaos |->
                        IF a = counted.vao /\ counted.vaos[a].ebo = b
                        THEN [counted.vaos[a] EXCEPT !.ebo = 0]
                        ELSE counted.vaos[a]]]

\* Position of vertex i as read through attribute 0 (size floats at
\* offset + i * stride); <<>> when the attribute cannot be fetched.
FetchVertex(g, i) ==
    LET a == g.vaos[g.vao].attrib0
        base == a.offset + i * a.stride
    IN  IF a.enabled /\ a.buffer \in DOMAIN g.buffers
           /\ base + a.size <= Len(g.buffers[a.buffer])
        THEN [k \in 1..a.size |-> g.buffers[a.buffer][base + k]]
        ELSE <<>>

\* GL_TRIANGLES: every three consecutive elements of `elems` form a triangle.
Assemble(g, elems) ==
    [t \in 1..(Len(elems) \div 3) |->
        [k \in 1..3 |->
            [index |-> elems[3 * (t - 1) + k],
             pos   |-> FetchVertex(g, elems[3 * (t - 1) + k])]]]

\* Nothing is rasterised without a program in use or without a bound VAO.
Rasterise(g, prims) ==
    IF g.program = 0 \/ g.vao = 0 THEN g
    ELSE [g EXCEPT !.back.prims = @ \o prims]

glDrawArrays(g, first, count) ==
    LET d == [g EXCEPT !.lastDraw = [fn |-> "glDrawArrays", count |-> count]] IN
    IF g.vao = 0 THEN d
    ELSE Rasterise(d, Assemble(d, [k \in 1..count |-> first + k - 1]))

glDrawElements(g, count, offset) ==
    LET d == [g EXCEPT !.lastDraw = [fn |-> "glDrawElements", count |-> count]] IN
    IF g.vao = 0 THEN d
    ELSE LET e == g.vaos[g.vao].ebo IN
         IF e \notin DOMAIN g.buffers \/ offset + count > Len(g.buffers[e])
         THEN d
         ELSE Rasterise(d, Assemble(d, [k \in 1..count |->
                                           g.buffers[e][offset + k]]))

SwapBuffers(g) == [g EXCEPT !.front = g.back, !.back = g.front]

\* A context made current for the first time gets the window's size as viewport.
MakeContextCurrent(g) ==
    [g EXCEPT !.current = TRUE, !.viewport = <<0, 0, SCR_WIDTH, SCR_HEIGHT>>]

\* Destroying the context releases every object it still holds.
gladLoadGLLoader(g, ok) == [g EXCEPT !.loaded = ok]

DestroyContext(g) ==
    [NoContext EXCEPT !.genCalls = g.genCalls, !.delCalls = g.delCalls,
                      !.uploads = g.uploads]

-----------------------------------------------------------------------------
(* The windowing library *)

NoWindow ==
    [ initialized    |-> FALSE,
      window         |-> FALSE,
      shouldClose    |-> FALSE,
      escKey         |-> "RELEASE",
      resizeCallback |-> FALSE,
      terminateCalls |-> 0 ]

glfwInit(w) == [w EXCEPT !.initialized = TRUE]

glfwCreateWindow(w, ok) == [w EXCEPT !.window = ok /\ w.initialized]

glfwSetFramebufferSizeCallback(w) == [w EXCEPT !.resizeCallback = TRUE]

glfwWindowShouldClose(w) == w.shouldClose

glfwSetWindowShouldClose(w, v) == [w EXCEPT !.shouldClose = v]

glfwGetKey(w) == w.escKey

glfwTerminate(w) ==
    [w EXCEPT !.initialized = FALSE, !.window = FALSE,
              !.resizeCallback = FALSE, !.terminateCalls = @ + 1]

-----------------------------------------------------------------------------
(* main() *)

NoLocals ==
    [ vertexShader |-> 0, fragmentShader |-> 0, shaderProgram |-> 0,
      VAO |-> 0, VBO |-> 0, EBO |-> 0, success |-> 0 ]

Init ==
    /\ variant \in Variants
    /\ pc = "start"
    /\ glfw = NoWindow
    /\ gl = NoContext
    /\ loc = NoLocals
    /\ stdout = <<>>
    /\ retval = <<>>
    /\ frame = <<>>
    /\ events = <<>>
    /\ lastResize = NoResize
    /\ escObserved = FALSE

\* glfwInit, window hints, glfwCreateWindow and the !window branch.
CreateWindow(ok) ==
    /\ pc = "start"
    /\ LET w == glfwCreateWindow(glfwInit(glfw), ok) IN
       IF ~w.window
       THEN /\ stdout' = Append(stdout, MsgWindow)
            /\ glfw' = glfwTerminate(w)
            /\ retval' = <<-1>>
            /\ pc' = "done"
       ELSE /\ glfw' = w
            /\ pc' = "glad"
            /\ UNCHANGED <<stdout, retval>>
    /\ UNCHANGED <<variant, gl, loc, frame, events, lastResize, escObserved>>

LoadGL_unchecked(ok) ==
    /\ pc = "glad"
    /\ gl' = gladLoadGLLoader(MakeContextCurrent(gl), ok)
    /\ glfw' = glfwSetFramebufferSizeCallback(glfw)
    /\ pc' = "vs"
    /\ UNCHANGED <<variant, loc, stdout, retval, frame, events, lastResize,
                   escObserved>>

\* glfwMakeContextCurrent, glfwSetFramebufferSizeCallback, gladLoadGLLoader and
\* its failure branch (which returns without glfwTerminate).
LoadGL(ok) ==
    /\ pc = "glad"
    /\ gl' = gladLoadGLLoader(MakeContextCurrent(gl), ok)
    /\ glfw' = glfwSetFramebufferSizeCallback(glfw)
    /\ IF ~gl'.loaded
       THEN /\ stdout' = Append(stdout, MsgGlad)
            /\ retval' = <<-1>>
            /\ pc' = "done"
       ELSE /\ pc' = "vs"
            /\ UNCHANGED <<stdout, retval>>
    /\ UNCHANGED <<variant, loc, frame, events, lastResize, escObserved>>

CompileShaderStep(at, next, type, field, msg, ok) ==
    /\ pc = at
    /\ LET id == NewName(ProgramNames(gl))
           g  == glCompileShader(glShaderSource(glCreateShader(gl, id, type), id),
                                 id, ok)
           success == glGetShaderiv(g, id)
       IN  /\ gl' = g
           /\ loc' = [loc EXCEPT ![field] = id, !.success = success]
           /\ stdout' = IF success = 0 THEN Append(stdout, msg) ELSE stdout
    /\ pc' = next
    /\ UNCHANGED <<variant, glfw, retval, frame, events, lastResize, escObserved>>

CompileVertex(ok) ==
    CompileShaderStep("vs", "fs", "vertex", "vertexShader", MsgVertex, ok)

CompileFragment(ok) ==
    CompileShaderStep("fs", "link", "fragment", "fragmentShader", MsgFragment, ok)

LinkProgram_failfast(ok) ==
    /\ pc = "link"
    /\ LET id == NewName(ProgramNames(gl))
           g1 == glCreateProgram(gl, id)
           g2 == glAttachShader(g1, id, loc.vertexShader)
           g3 == glAttachShader(g2, id, loc.fragmentShader)
           g4 == glLinkProgram(g3, id, ok)
           success == glGetProgramiv(g4, id)
           g5 == glDeleteShader(g4, loc.vertexShader)
           g6 == glDeleteShader(g5, loc.fragmentShader)
       IN  /\ gl' = g6
           /\ loc' = [loc EXCEPT !.shaderProgram = id, !.success = success]
           /\ stdout' = IF success = 0 THEN Append(stdout, MsgLink) ELSE stdout
           /\ retval' = IF success = 0 THEN <<-1>> ELSE retval
           /\ pc' = IF success = 0 THEN "done" ELSE "setup"
    /\ UNCHANGED <<variant, glfw, frame, events, lastResize, escObserved>>

\* glCreateProgram .. glLinkProgram, the link-status check, glDeleteShader x2.
LinkProgram(ok) ==
    /\ pc = "link"
    /\ LET id == NewName(ProgramNames(gl))
           g1 == glCreateProgram(gl, id)
           g2 == glAttachShader(g1, id, loc.vertexShader)
           g3 == glAttachShader(g2, id, loc.fragmentShader)
           g4 == glLinkProgram(g3, id, ok)
           success == glGetProgramiv(g4, id)
           g5 == glDeleteShader(g4, loc.vertexShader)
           g6 == glDeleteShader(g5, loc.fragmentShader)
       IN  /\ gl' = g6
           /\ loc' = [loc EXCEPT !.shaderProgram = id, !.success = success]
           /\ stdout' = IF success = 0 THEN Append(stdout, MsgLink) ELSE stdout
    /\ pc' = "setup"
    /\ UNCHANGED <<variant, glfw, retval, frame, events, lastResize, escObserved>>

\* glGen*, the VAO/VBO(/EBO) configuration and the two unbinds before the loop.
SetupGeometry(g, v, vao, vbo, ebo) ==
    LET g1 == glGenVertexArrays(g, vao)
        g2 == glGenBuffers(g1, vbo)
        g3 == IF v = "rectangle" THEN glGenBuffers(g2, ebo) ELSE g2
        g4 == glBindVertexArray(g3, vao)
        g5 == glBindBuffer(g4, "GL_ARRAY_BUFFER", vbo)
        g6 == glBufferData(g5, "GL_ARRAY_BUFFER", vertices(v))
        g7 == IF v = "rectangle"
              THEN glBufferData(glBindBuffer(g6, "GL_ELEMENT_ARRAY_BUFFER", ebo),
                                "GL_ELEMENT_ARRAY_BUFFER", indices)
              ELSE g6
        g8 == glVertexAttribPointer(g7, 3, 3, 0)
        g9 == glEnableVertexAttribArray(g8)
        g10 == glBindBuffer(g9, "GL_ARRAY_BUFFER", 0)
    IN  glBindVertexArray(g10, 0)

Setup ==
    /\ pc = "setup"
    /\ LET vao == NewName(DOMAIN gl.vaos)
           vbo == NewName(DOMAIN gl.buffers)
           ebo == IF variant = "rectangle"
                  THEN NewName(DOMAIN gl.buffers \cup {vbo}) ELSE 0
       IN  /\ gl' = SetupGeometry(gl, variant, vao, vbo, ebo)
           /\ loc' = [loc EXCEPT !.VAO = vao, !.VBO = vbo, !.EBO = ebo]
    /\ pc' = "loop"
    /\ UNCHANGED <<variant, glfw, stdout, retval, frame, events, lastResize,
                   escObserved>>

-----------------------------------------------------------------------------
(* The render loop *)

LoopExits_never(w) == FALSE

\* while (!glfwWindowShouldClose(window))
LoopExits(w) == glfwWindowShouldClose(w)

LoopCheck ==
    /\ pc = "loop"
    /\ IF LoopExits(glfw)
       THEN pc' = "cleanup" /\ frame' = frame
       ELSE pc' = "input" /\ frame' = <<>>
    /\ UNCHANGED <<variant, glfw, gl, loc, stdout, retval, events, lastResize,
                   escObserved>>

processInput_ignoresEscape(w) == w

processInput(w) ==
    IF glfwGetKey(w) = "PRESS" THEN glfwSetWindowShouldClose(w, TRUE) ELSE w

ProcessInput_breaks ==
    /\ pc = "input"
    /\ glfw' = processInput(glfw)
    /\ escObserved' = (escObserved \/ glfwGetKey(glfw) = "PRESS")
    /\ frame' = Append(frame, "processInput")
    /\ pc' = IF glfwGetKey(glfw) = "PRESS" THEN "loop" ELSE "clear"
    /\ UNCHANGED <<variant, gl, loc, stdout, retval, events, lastResize>>

ProcessInput ==
    /\ pc = "input"
    /\ glfw' = processInput(glfw)
    /\ escObserved' = (escObserved \/ glfwGetKey(glfw) = "PRESS")
    /\ frame' = Append(frame, "processInput")
    /\ pc' = "clear"
    /\ UNCHANGED <<variant, gl, loc, stdout, retval, events, lastResize>>

Clear ==
    /\ pc = "clear"
    /\ gl' = glClear(glClearColor(gl, ClearColor))
    /\ frame' = Append(frame, "glClear")
    /\ pc' = "use"
    /\ UNCHANGED <<variant, glfw, loc, stdout, retval, events, lastResize,
                   escObserved>>

UseProgram ==
    /\ pc = "use"
    /\ gl' = glUseProgram(gl, loc.shaderProgram)
    /\ frame' = Append(frame, "glUseProgram")
    /\ pc' = "bind"
    /\ UNCHANGED <<variant, glfw, loc, stdout, retval, events, lastResize,
                   escObserved>>

BindGeometry_missing(g, vao) == g

BindGeometry(g, vao) == glBindVertexArray(g, vao)

BindVAO ==
    /\ pc = "bind"
    /\ gl' = BindGeometry(gl, loc.VAO)
    /\ frame' = Append(frame, "glBindVertexArray")
    /\ pc' = "draw"
    /\ UNCHANGED <<variant, glfw, loc, stdout, retval, events, lastResize,
                   escObserved>>

\* glDrawArrays(GL_TRIANGLES, 0, 3) / glDrawElements(GL_TRIANGLES, 6, .., 0)
DrawCall(g, v) ==
    IF v = "triangle" THEN glDrawArrays(g, 0, 3) ELSE glDrawElements(g, 6, 0)

Draw ==
    /\ pc = "draw"
    /\ gl' = DrawCall(gl, variant)
    /\ frame' = Append(frame, gl'.lastDraw.fn)
    /\ pc' = "swap"
    /\ UNCHANGED <<variant, glfw, loc, stdout, retval, events, lastResize,
                   escObserved>>

Swap ==
    /\ pc = "swap"
    /\ gl' = SwapBuffers(gl)
    /\ frame' = Append(frame, "glfwSwapBuffers")
    /\ events' = <<>>
    /\ pc' = "poll"
    /\ UNCHANGED <<variant, glfw, loc, stdout, retval, lastResize, escObserved>>

-----------------------------------------------------------------------------
(* glfwPollEvents: dispatches the pending events, then returns *)

Event(type, width, height, action) ==
    [type |-> type, width |-> width, height |-> height, action |-> action]

framebuffer_size_callback_swapped(g, width, height) ==
    glViewport(g, 0, 0, height, width)

framebuffer_size_callback(g, width, height) == glViewport(g, 0, 0, width, height)

ResizeEvent(width, height) ==
    /\ pc = "poll"
    /\ Len(events) < MaxEvents
    /\ glfw.resizeCallback
    /\ gl' = framebuffer_size_callback(gl, width, height)
    /\ lastResize' = <<width, height>>
    /\ events' = Append(events, Event("resize", width, height, ""))
    /\ UNCHANGED <<variant, pc, glfw, loc, stdout, retval, frame, escObserved>>

\* The user asks the window to close: GLFW sets the close flag.
CloseEvent ==
    /\ pc = "poll"
    /\ Len(events) < MaxEvents
    /\ glfw' = glfwSetWindowShouldClose(glfw, TRUE)
    /\ events' = Append(events, Event("close", 0, 0, ""))
    /\ UNCHANGED <<variant, pc, gl, loc, stdout, retval, frame, lastResize,
                   escObserved>>

\* Escape goes down or up: GLFW records the key's last reported state.
KeyEvent(state) ==
    /\ pc = "poll"
    /\ Len(events) < MaxEvents
    /\ state # glfw.escKey
    /\ glfw' = [glfw EXCEPT !.escKey = state]
    /\ events' = Append(events, Event("key", 0, 0, state))
    /\ UNCHANGED <<variant, pc, gl, loc, stdout, retval, frame, lastResize,
                   escObserved>>

PollReturn ==
    /\ pc = "poll"
    /\ frame' = Append(frame, "glfwPollEvents")
    /\ pc' = "loop"
    /\ UNCHANGED <<variant, glfw, gl, loc, stdout, retval, events, lastResize,
                   escObserved>>

-----------------------------------------------------------------------------
(* Cleanup and return *)

DeleteResources_leaksEBO(g, v, l) ==
    LET g1 == glDeleteVertexArrays(g, l.VAO)
        g2 == glDeleteBuffers(g1, l.VBO)
    IN  glDeleteProgram(g2, l.shaderProgram)

DeleteResources(g, v, l) ==
    LET g1 == glDeleteVertexArrays(g, l.VAO)
        g2 == glDeleteBuffers(g1, l.VBO)
        g3 == IF v = "rectangle" THEN glDeleteBuffers(g2, l.EBO) ELSE g2
    IN  glDeleteProgram(g3, l.shaderProgram)

Cleanup ==
    /\ pc = "cleanup"
    /\ gl' = DestroyContext(DeleteResources(gl, variant, loc))
    /\ glfw' = glfwTerminate(glfw)
    /\ retval' = <<0>>
    /\ pc' = "done"
    /\ UNCHANGED <<variant, loc, stdout, frame, events, lastResize, escObserved>>

-----------------------------------------------------------------------------

Next ==
    \/ \E ok \in BOOLEAN : CreateWindow(ok)
    \/ \E ok \in BOOLEAN : LoadGL(ok)
    \/ \E ok \in BOOLEAN : CompileVertex(ok)
    \/ \E ok \in BOOLEAN : CompileFragment(ok)
    \/ \E ok \in BOOLEAN : LinkProgram(ok)
    \/ Setup
    \/ LoopCheck
    \/ ProcessInput
    \/ Clear
    \/ UseProgram
    \/ BindVAO
    \/ Draw
    \/ Swap
    \/ \E w \in Widths, h \in Heights : ResizeEvent(w, h)
    \/ CloseEvent
    \/ \E k \in {"PRESS", "RELEASE"} : KeyEvent(k)
    \/ PollReturn
    \/ Cleanup

Spec == Init /\ [][Next]_vars

\* main() is sequential code whose calls return: it always takes its next step.
LiveSpec == Spec /\ WF_vars(Next)

-----------------------------------------------------------------------------
(* Vocabulary of the properties *)

Range(q) == { q[i] : i \in 1..Len(q) }

Count(q, x) == Cardinality({ i \in 1..Len(q) : q[i] = x })

LoopPcs == {"input", "clear", "use", "bind", "draw", "swap", "poll"}

RunningPcs == LoopPcs \cup {"loop", "cleanup"}

ExpectedFrame ==
    << "processInput", "glClear", "glUseProgram", "glBindVertexArray",
       IF variant = "triangle" THEN "glDrawArrays" ELSE "glDrawElements",
       "glfwSwapBuffers", "glfwPollEvents" >>

\* The GPU resources main() holds handles to.
Resources ==
    { <<"program", loc.shaderProgram>>, <<"vao", loc.VAO>>, <<"buffer", loc.VBO>> }
    \cup (IF variant = "rectangle" THEN { <<"buffer", loc.EBO>> } ELSE {})

Live(r) ==
    CASE r[1] = "program" -> r[2] \in DOMAIN gl.programs /\ ~gl.programs[r[2]].flagged
      [] r[1] = "vao"     -> r[2] \in DOMAIN gl.vaos
      [] r[1] = "buffer"  -> r[2] \in DOMAIN gl.buffers

NoObjects ==
    /\ DOMAIN gl.programs = {} /\ DOMAIN gl.shaders = {}
    /\ DOMAIN gl.vaos = {} /\ DOMAIN gl.buffers = {}

TornDown ==
    /\ retval = <<0>>
    /\ \A r \in Resources : Calls(gl.genCalls, r) = 1 /\ Calls(gl.delCalls, r) = 1
    /\ NoObjects
    /\ glfw.terminateCalls = 1
    /\ ~glfw.window

-----------------------------------------------------------------------------
\* C1: once processInput observes Escape pressed, the close flag is set in that
\* same iteration, the loop condition then never starts another iteration, and
\* main goes on to delete the program, the VAO and every buffer, call
\* glfwTerminate once and return 0.
C1_EscapeTearsDown ==
    /\ [](escObserved => glfw.shouldClose)
    /\ [][escObserved /\ pc = "loop" => pc' = "cleanup"]_vars
    /\ [](escObserved /\ pc = "done" => TornDown)
    /\ (escObserved ~> (pc = "done" /\ TornDown))

C1_Witness == escObserved /\ pc = "done" /\ TornDown /\ variant = "rectangle"

\* C2: the render loop ends only through the close flag: it is left only from
\* the loop condition and only with the flag set, a set flag always ends it at
\* the next loop-condition check, the flag is raised only by processInput seeing
\* Escape or by a close request dispatched by glfwPollEvents, and a set flag is
\* never cleared.
C2_LoopEndsOnlyOnCloseFlag ==
    [][ /\ (pc \in LoopPcs => pc' \in LoopPcs \cup {"loop"})
        /\ (pc = "loop" /\ pc' # "loop" =>
               pc' = (IF glfw.shouldClose THEN "cleanup" ELSE "input"))
        /\ (pc' = "cleanup" => pc = "loop" /\ glfw.shouldClose)
        /\ (glfw.shouldClose => glfw'.shouldClose)
        /\ (~glfw.shouldClose /\ glfw'.shouldClose =>
               \/ pc = "input" /\ glfw.escKey = "PRESS"
               \/ pc = "poll" /\ Len(events') = Len(events) + 1
                              /\ events'[Len(events')].type = "close")
      ]_vars

C2_Witness == pc = "cleanup" /\ glfw.shouldClose /\ ~escObserved

\* C3: a window-creation or GLAD failure prints its message and returns -1 at
\* once: nothing else is printed, no GL object was ever created, no loop
\* iteration ran; main gets past each check only when it passed, and 0 is
\* returned only after the loop and the cleanup have run.
C3_FatalInitFailure ==
    /\ (pc \notin {"start", "done"} => glfw.window)
    /\ (pc \notin {"start", "glad", "done"} => gl.loaded)
    /\ (MsgWindow \in Range(stdout) \/ MsgGlad \in Range(stdout) =>
           /\ pc = "done" /\ retval = <<-1>>
           /\ Len(stdout) = 1
           /\ DOMAIN gl.genCalls = {} /\ NoObjects
           /\ frame = <<>> /\ gl.lastDraw.fn = "")
    /\ (retval = <<-1>> => stdout \in {<<MsgWindow>>, <<MsgGlad>>})
    /\ (retval = <<-1>> /\ stdout = <<MsgWindow>> => ~gl.current)
    /\ (retval = <<0>> =>
           /\ pc = "done" /\ frame = ExpectedFrame
           /\ \A r \in Resources : Calls(gl.delCalls, r) = 1)
    /\ (pc = "done" <=> retval # <<>>)

C3_Witness == pc = "done" /\ retval = <<-1>> /\ stdout = <<MsgGlad>>

VertexFailed == glGetShaderiv(gl, loc.vertexShader) = 0

FragmentFailed == glGetShaderiv(gl, loc.fragmentShader) = 0

LinkFailed == glGetProgramiv(gl, loc.shaderProgram) = 0

ShaderDiagnostics == {MsgVertex, MsgFragment, MsgLink}

\* C4: each of the three shader steps prints its diagnostic exactly once when
\* its status query reports failure and not at all when it reports success;
\* whatever the three outcomes, main never returns -1 because of them, reaches
\* the render loop, and returns 0 once the close flag is set.
C4_ShaderFailuresNonFatal ==
    /\ [](pc \in {"fs", "link", "setup"} \cup RunningPcs =>
             Count(stdout, MsgVertex) = (IF VertexFailed THEN 1 ELSE 0))
    /\ [](pc \in {"link", "setup"} \cup RunningPcs =>
             Count(stdout, MsgFragment) = (IF FragmentFailed THEN 1 ELSE 0))
    /\ [](pc \in {"setup"} \cup RunningPcs =>
             Count(stdout, MsgLink) = (IF LinkFailed THEN 1 ELSE 0))
    /\ [](Range(stdout) \cap ShaderDiagnostics # {} /\ pc = "done" => retval = <<0>>)
    /\ [](pc = "done" /\ retval = <<-1>> => DOMAIN gl.genCalls = {})
    /\ (pc = "vs" ~> pc = "input")
    /\ (pc \in LoopPcs /\ glfw.shouldClose ~> retval = <<0>>)

C4_Witness ==
    pc = "done" /\ retval = <<0>> /\ stdout = <<MsgVertex, MsgFragment, MsgLink>>

FramePosition ==
    CASE pc = "input" -> 0
      [] pc = "clear" -> 1
      [] pc = "use"   -> 2
      [] pc = "bind"  -> 3
      [] pc = "draw"  -> 4
      [] pc = "swap"  -> 5
      [] pc = "poll"  -> 6
      [] OTHER        -> 7

\* C5: every loop iteration makes its calls in the order processInput, clear,
\* glUseProgram, glBindVertexArray, one draw (glDrawArrays of 3 vertices in the
\* triangle program, glDrawElements of 6 indices in the rectangle program),
\* glfwSwapBuffers, glfwPollEvents; the iteration that observes Escape is
\* completed in full before the loop exits.
C5_FrameOrder ==
    /\ (pc \in LoopPcs \/ pc = "cleanup" \/ (pc = "loop" /\ frame # <<>>) =>
           frame = SubSeq(ExpectedFrame, 1, FramePosition))
    /\ (pc = "loop" /\ frame = <<>> => gl.lastDraw.fn = "")
    /\ (pc \in {"swap", "poll", "cleanup"} \/ (pc = "loop" /\ frame # <<>>) =>
           gl.lastDraw = (IF variant = "triangle"
                          THEN [fn |-> "glDrawArrays", count |-> 3]
                          ELSE [fn |-> "glDrawElements", count |-> 6]))
    /\ (pc \in {"poll", "cleanup"} \/ (pc = "loop" /\ frame # <<>>) =>
           gl.front.color = ClearColor)
    /\ (retval = <<0>> => frame = ExpectedFrame)

C5_Witness ==
    escObserved /\ pc = "cleanup" /\ frame = ExpectedFrame /\ variant = "triangle"

SteadyLoopStep ==
    pc \in LoopPcs \cup {"loop"} /\ pc' \in LoopPcs \cup {"loop"} =>
        /\ gl'.genCalls = gl.genCalls
        /\ gl'.delCalls = gl.delCalls
        /\ gl'.uploads = gl.uploads
        /\ gl'.buffers = gl.buffers
        /\ gl'.vaos = gl.vaos
        /\ gl'.programs = gl.programs

DrawFindsResources ==
    gl'.lastDraw # gl.lastDraw \/ (pc = "draw" /\ pc' # pc) =>
        \A r \in Resources : Calls(gl.delCalls, r) = 0 /\ Live(r)

\* C6: on the non-fatal path the program, the VAO, the VBO and (rectangle) the
\* EBO are each created once before the first iteration and deleted once after
\* the loop; while the loop runs nothing is created, deleted or uploaded again,
\* and every draw call finds all of them alive.
C6_ResourceLifecycle ==
    /\ [](\A k \in DOMAIN gl.genCalls : gl.genCalls[k] = 1)
    /\ [](\A k \in DOMAIN gl.delCalls : gl.delCalls[k] = 1)
    /\ [](pc \in RunningPcs =>
             /\ \A r \in Resources :
                   Calls(gl.genCalls, r) = 1 /\ Calls(gl.delCalls, r) = 0 /\ Live(r)
             /\ Cardinality(Resources) = (IF variant = "rectangle" THEN 4 ELSE 3)
             /\ \A b \in DOMAIN gl.buffers : Calls(gl.uploads, b) = 1)
    /\ [](pc = "done" /\ retval = <<0>> =>
             /\ \A r \in Resources :
                   Calls(gl.genCalls, r) = 1 /\ Calls(gl.delCalls, r) = 1
             /\ NoObjects)
    /\ [][SteadyLoopStep /\ DrawFindsResources]_vars

C6_Witness ==
    /\ variant = "rectangle" /\ pc = "done" /\ retval = <<0>>
    /\ \A r \in Resources : Calls(gl.genCalls, r) = 1 /\ Calls(gl.delCalls, r) = 1
    /\ Cardinality(Resources) = 4

ResizeDispatched ==
    /\ Len(events') = Len(events) + 1
    /\ events'[Len(events')].type = "resize"

ResizeEffect ==
    LET e == events'[Len(events')] IN
    /\ gl'.viewport = <<0, 0, e.width, e.height>>
    /\ gl' = [gl EXCEPT !.viewport = gl'.viewport]
    /\ glfw' = glfw
    /\ loc' = loc
    /\ lastResize' = <<e.width, e.height>>

\* C7: a framebuffer_size_callback(W, H) call sets the viewport to (0, 0, W, H)
\* and changes nothing else in the GL context, the window state or main's
\* variables; while the context lives the viewport is the most recent resize.
C7_ResizeSetsViewportOnly ==
    /\ [][ResizeDispatched => ResizeEffect]_vars
    /\ [](gl.current /\ lastResize # NoResize =>
             gl.viewport = <<0, 0, lastResize[1], lastResize[2]>>)
    /\ [](gl.current /\ lastResize = NoResize =>
             gl.viewport = <<0, 0, SCR_WIDTH, SCR_HEIGHT>>)

C7_Witness ==
    /\ Len(events) = 2 /\ events[1].type = "resize" /\ events[2].type = "resize"
    /\ events[1].width # events[2].width
    /\ gl.viewport = <<0, 0, events[2].width, events[2].height>>
    /\ gl.viewport # <<0, 0, SCR_WIDTH, SCR_HEIGHT>>

Cross(a, b, c) == (b[1] - a[1]) * (c[2] - a[2]) - (b[2] - a[2]) * (c[1] - a[1])

Abs(n) == IF n < 0 THEN -n ELSE n

\* Triangle t (three positions in units of 0.5) against point q in units of 0.25.
Sides(t, q) ==
    LET P(k) == <<2 * t[k].pos[1], 2 * t[k].pos[2]>> IN
    { Cross(P(1), P(2), q), Cross(P(2), P(3), q), Cross(P(3), P(1), q) }

Inside(t, q) == (\A x \in Sides(t, q) : x > 0) \/ (\A x \in Sides(t, q) : x < 0)

Touches(t, q) == (\A x \in Sides(t, q) : x >= 0) \/ (\A x \in Sides(t, q) : x <= 0)

Grid == (-3..3) \X (-3..3)

QuadCorners == { <<1, 1, 0>>, <<1, -1, 0>>, <<-1, -1, 0>>, <<-1, 1, 0>> }

TilesQuad(prims) ==
    /\ Len(prims) = 2
    /\ \A t \in 1..2 : \A k \in 1..3 : prims[t][k].pos \in QuadCorners
    /\ { prims[t][k].pos : t \in 1..2, k \in 1..3 } = QuadCorners
    /\ Abs(Cross(prims[1][1].pos, prims[1][2].pos, prims[1][3].pos))
         + Abs(Cross(prims[2][1].pos, prims[2][2].pos, prims[2][3].pos)) = 8
    /\ \A q \in Grid :
          /\ (Abs(q[1]) <= 2 /\ Abs(q[2]) <= 2 =>
                 \E t \in 1..2 : Touches(prims[t], q))
          /\ (Abs(q[1]) > 2 \/ Abs(q[2]) > 2 =>
                 \A t \in 1..2 : ~Touches(prims[t], q))
          /\ ~(Inside(prims[1], q) /\ Inside(prims[2], q))

\* C8: in the rectangle program the uploaded indices 0,1,3,1,2,3 over the four
\* uploaded vertices form two triangles that exactly tile the quad with corners
\* (0.5,0.5), (0.5,-0.5), (-0.5,-0.5), (-0.5,0.5): indices are below 4, each
\* triangle has three distinct vertices, the triangles share exactly vertices 1
\* and 3, together they use all four corners, and what is rasterised covers
\* the quad with no gap and no overlap.
C8_RectangleIndicesTileQuad ==
    variant = "rectangle" /\ pc \in RunningPcs =>
        LET idx == gl.buffers[loc.EBO]
            vbo == gl.buffers[loc.VBO]
            T1  == { idx[1], idx[2], idx[3] }
            T2  == { idx[4], idx[5], idx[6] }
        IN  /\ Len(idx) = 6 /\ Len(vbo) = 3 * 4
            /\ \A i \in 1..6 : idx[i] \in 0..3
            /\ Cardinality(T1) = 3 /\ Cardinality(T2) = 3
            /\ T1 \cap T2 = {1, 3}
            /\ T1 \cup T2 = 0..3
            /\ { SubSeq(vbo, 3 * i + 1, 3 * i + 3) : i \in 0..3 } = QuadCorners
            /\ \A buf \in {gl.back, gl.front} :
                  buf.prims # <<>> =>
                      /\ TilesQuad(buf.prims)
                      /\ [i \in 1..6 |-> buf.prims[(i + 2) \div 3][((i - 1) % 3) + 1].index]
                           = idx

C8_Witness ==
    /\ variant = "rectangle" /\ pc = "swap"
    /\ Len(gl.back.prims) = 2 /\ TilesQuad(gl.back.prims)

GeometryActive ==
    /\ gl.vao = loc.VAO /\ loc.VAO # 0
    /\ gl.vaos[gl.vao].attrib0 =
          [enabled |-> TRUE, size |-> 3, stride |-> 3, offset |-> 0,
           buffer |-> loc.VBO]
    /\ loc.VBO \in DOMAIN gl.buffers /\ gl.buffers[loc.VBO] = vertices(variant)
    /\ gl.arrayBuffer = 0
    /\ IF variant = "rectangle"
       THEN /\ gl.vaos[gl.vao].ebo = loc.EBO
            /\ loc.EBO \in DOMAIN gl.buffers
       ELSE gl.vaos[gl.vao].ebo = 0

\* C9 as claimed: at every draw call the active program is the program created
\* at startup and the active vertex array is the configured VAO (attribute 0
\* reading 3 floats per vertex from the VBO, element array bound to the EBO).
C9_DrawStateAsClaimed ==
    pc = "draw" => gl.program = loc.shaderProgram /\ GeometryActive

\* C9 amended: at every draw call the active vertex array is the configured
\* VAO (as above); the active program is the program created at startup when
\* that program linked, and no program (0) when the link failed, since
\* glUseProgram rejects an unlinked program.
C9_DrawState ==
    pc = "draw" =>
        /\ GeometryActive
        /\ loc.shaderProgram \in DOMAIN gl.programs
        /\ gl.program = (IF LinkFailed THEN 0 ELSE loc.shaderProgram)

C9_Witness ==
    /\ pc = "draw" /\ lastResize # NoResize /\ glfw.escKey = "PRESS"
    /\ variant = "rectangle" /\ GeometryActive
    /\ gl.program = loc.shaderProgram /\ gl.program # 0

\* C10: whenever main has returned, glfwTerminate has been called exactly once.
C10_TerminateOnEveryReturn == pc = "done" => glfw.terminateCalls = 1

====
